---- MODULE Spec2Model ----
(***************************************************************************)
(* Model of can_decode (src/src/lib.rs): the Parser's message catalog      *)
(* (msg_defs), the loads and clear that change it, decode_msg run by       *)
(* several callers, and the pure functions decode_signal and               *)
(* extract_signal_value.                                                   *)
(*                                                                         *)
(* A u64 / usize value is modelled bit-exactly as the set of the positions *)
(* of its set bits (a subset of 0..63): | is \cup, & is \cap, a shift      *)
(* moves the positions.  A byte (u8) is an integer in 0..255.              *)
(***************************************************************************)
EXTENDS Integers, Sequences, FiniteSets, TLC

VARIABLES
    overflow_checks,  \* the build: TRUE = overflow checks on (dev profile), FALSE = off (release)
    msg_defs,         \* Parser.msg_defs: HashMap<u32, can_dbc::Message>
    history,          \* ghost: the successful loads since the last clear, oldest first
    callers,          \* the decode_msg calls in flight, one record per caller
    call              \* one call of decode_signal / extract_signal_value on drawn inputs

vars == <<overflow_checks, msg_defs, history, callers, call>>

\* ---------------------------------------------------------------- bounds

\* Longest buffer drawn, in bytes (a 64-bit field that is not byte aligned needs 9).
MaxLen == 9
\* The start bits 0 .. MaxStartBit are drawn (with a few singled out, see StartBits).
MaxStartBit == 3
\* Successful loads kept between two clears.
MaxLoads == 2

\* ------------------------------------------------------- program constants

\* Width of u64, and of usize on the 64-bit targets modelled.
WordBits == 64
\* Bits of a u8.
ByteBits == 8

\* ------------------------------------------------------------- u64 words

Min(a, b) == IF a <= b THEN a ELSE b

AllOnes == 0 .. (WordBits - 1)

\* The bits of a byte as a word: `b as u64`.
ByteWord(b) == {i \in 0 .. (ByteBits - 1) : (b \div (2 ^ i)) % 2 = 1}

\* A word of a small natural, and back.  WToNat is used only on words below 2^30.
WFromNat(n) == {i \in 0 .. 30 : (n \div (2 ^ i)) % 2 = 1}

RECURSIVE WToNat(_)
WToNat(w) ==
    IF w = {} THEN 0
    ELSE LET i == CHOOSE j \in w : \A k \in w : k <= j
         IN (2 ^ i) + WToNat({k \in w : k < i})

\* w < n and w > n for a word w and a small natural n.
WIsSmall(w) == \A i \in w : i < 30
WLtNat(w, n) == WIsSmall(w) /\ WToNat(w) < n
WGtNat(w, n) == ~WIsSmall(w) \/ WToNat(w) > n

\* a | b, a & b and !a.
WOr(a, b) == a \cup b
WAnd(a, b) == a \cap b
WNot(a) == AllOnes \ a

\* w << k and w >> k; Shl wraps the shift amount as the release build does.
Shl(w, k) == {i + (k % WordBits) : i \in {j \in w : j + (k % WordBits) < WordBits}}
Shr(w, k) == {i - k : i \in {j \in w : j >= k}}

\* The low k bits of w: `w % 2^k`.
WLow(w, k) == {i \in w : i < k}

\* w - 1 (w = 0 wraps to all ones).
WSubOne(w) ==
    IF w = {} THEN AllOnes
    ELSE LET m == CHOOSE j \in w : \A k \in w : j <= k
         IN {i \in w : i > m} \cup (0 .. (m - 1))

\* w + 1, wrapping.
WInc(w) ==
    IF w = AllOnes THEN {}
    ELSE LET z == CHOOSE j \in AllOnes : j \notin w /\ \A k \in 0 .. (j - 1) : k \in w
         IN {i \in w : i > z} \cup {z}

\* a + b: the wrapped sum and whether it overflowed.  The carry into bit i is
\* generated at some lower bit j and propagated by every bit between.
CarryInto(a, b, i) ==
    \E j \in a \cap b :
        /\ j < i
        /\ \A k \in (j + 1) .. (i - 1) : k \in a \/ k \in b

WAdd(a, b) ==
    [sum |-> {i \in AllOnes : (i \in a) # ((i \in b) # CarryInto(a, b, i))},
     overflow |-> CarryInto(a, b, WordBits)]

\* ------------------------------------------- Parser::extract_signal_value

None == [kind |-> "None", value |-> {}, steps |-> 0, exhausted |-> FALSE, remaining |-> 0, read |-> {}]
Panic == [kind |-> "Panic", value |-> {}, steps |-> 0, exhausted |-> FALSE, remaining |-> 0, read |-> {}]

\* `data.is_empty() || size == 0`
IsEmptyOrZero(data, size) == Len(data) = 0 \/ size = 0

\* `start_bit + size > total_bits`, on the (possibly wrapped) sum.
SpanExceeds(sum, total_bits) == WGtNat(sum, total_bits)

\* A slip: the bits left in the byte, not capped by the bits still wanted.
BitsInThisByteUncapped(remaining_bits, bit_offset) == ByteBits - bit_offset

\* `std::cmp::min(remaining_bits, 8 - bit_offset)`
BitsInThisByte(remaining_bits, bit_offset) == Min(remaining_bits, ByteBits - bit_offset)

\* `((1u64 << bits_in_this_byte) - 1) << bit_offset`
LeMask(bits_in_this_byte, bit_offset) == Shl(WSubOne(Shl({0}, bits_in_this_byte)), bit_offset)

\* A slip: the masked bits are not shifted down to position 0.
LeByteValueUnshifted(byte, mask, bit_offset) == WAnd(ByteWord(byte), mask)

\* `((data[current_byte] as u64) & mask) >> bit_offset`
LeByteValue(byte, mask, bit_offset) == Shr(WAnd(ByteWord(byte), mask), bit_offset)

\* `result |= byte_value << (size - remaining_bits)`
LeAccumulate(result, byte_value, size, remaining_bits) ==
    WOr(result, Shl(byte_value, size - remaining_bits))

\* A slip: the first byte off by one.
StartByteOffByOne(start_bit) == WInc(Shr(start_bit, 3))

\* `start_bit / 8`
StartByte(start_bit) == Shr(start_bit, 3)

\* `start_bit % 8`
StartBitInByte(start_bit) == WToNat(WLow(start_bit, 3))

\* One iteration of the little-endian `while` loop on the loop variables s;
\* current_byte is a usize word, the rest small.
LeStep(data, size, s) ==
    LET bits_in_this_byte == BitsInThisByte(s.remaining_bits, s.bit_offset)
        mask == LeMask(bits_in_this_byte, s.bit_offset)
        byte_value == LeByteValue(data[WToNat(s.current_byte) + 1], mask, s.bit_offset)
    IN [remaining_bits |-> s.remaining_bits - bits_in_this_byte,
        current_byte |-> WInc(s.current_byte),
        bit_offset |-> 0,
        result |-> LeAccumulate(s.result, byte_value, size, s.remaining_bits),
        steps |-> s.steps + 1,
        read |-> s.read \cup {WToNat(s.current_byte)}]

\* `while remaining_bits > 0 && current_byte < data.len()`: the loop's test.
LeContinues(data, s) == s.remaining_bits > 0 /\ WLtNat(s.current_byte, Len(data))

\* Up to n passes through the loop, stopping when its test fails.
RECURSIVE LeRun(_, _, _, _)
LeRun(data, size, s, n) ==
    IF n = 0 \/ ~LeContinues(data, s) THEN s
    ELSE IF n = 1 THEN LeStep(data, size, s)
    ELSE LeRun(data, size, LeRun(data, size, s, n \div 2), n - (n \div 2))

\* The whole loop.  Every pass moves current_byte up by one and the test needs
\* current_byte < data.len(), so data.len() passes end it.
LeLoop(data, size, s0) ==
    LET s == LeRun(data, size, s0, Len(data))
    IN [kind |-> "Some", value |-> s.result, steps |-> s.steps,
        exhausted |-> s.remaining_bits > 0, remaining |-> s.remaining_bits,
        read |-> s.read]

\* A slip: bit 0 of a byte taken as its least significant bit.
BeBitIdxLsbFirst(bit_pos) == WToNat(WLow(bit_pos, 3))

\* `7 - (bit_pos % 8)`
BeBitIdx(bit_pos) == (ByteBits - 1) - WToNat(WLow(bit_pos, 3))

\* `(data[byte_idx] >> bit_idx) & 1`
BeBitVal(byte, bit_idx) == (byte \div (2 ^ bit_idx)) % 2

\* `result = (result << 1) | (bit_val as u64)`
BeAccumulate(result, bit_val) == WOr(Shl(result, 1), WFromNat(bit_val))

\* One iteration of the big-endian `for` loop: `break` when the byte index is past
\* the buffer, a bit read otherwise.  steps counts the bits read.
BeStep(data, s) ==
    LET byte_idx == Shr(s.bit_pos, 3)
        bit_idx == BeBitIdx(s.bit_pos)
    IN IF ~WLtNat(byte_idx, Len(data))
       THEN [s EXCEPT !.broke = TRUE]
       ELSE [bit_pos |-> WInc(s.bit_pos),
             result |-> BeAccumulate(s.result, BeBitVal(data[WToNat(byte_idx) + 1], bit_idx)),
             steps |-> s.steps + 1,
             read |-> s.read \cup {WToNat(byte_idx)},
             broke |-> FALSE]

\* Up to n iterations of the loop, stopping at the `break`.
RECURSIVE BeRun(_, _, _)
BeRun(data, s, n) ==
    IF n = 0 \/ s.broke THEN s
    ELSE IF n = 1 THEN BeStep(data, s)
    ELSE BeRun(data, BeRun(data, s, n \div 2), n - (n \div 2))

\* `for _ in 0..size { ... }`
BeLoop(data, size, s0) ==
    LET s == BeRun(data, s0, size)
    IN [kind |-> "Some", value |-> s.result, steps |-> s.steps,
        exhausted |-> s.broke, remaining |-> size - s.steps, read |-> s.read]

\* extract_signal_value(data, start_bit, size, byte_order) under build `checks`.
\* start_bit is a usize word, size a small natural.  The usize sum start_bit + size
\* panics when it overflows with overflow checks on, and wraps with them off.
ExtractSignalValue(checks, data, start_bit, size, byte_order) ==
    IF IsEmptyOrZero(data, size) THEN None
    ELSE LET total_bits == Len(data) * ByteBits
             add == WAdd(start_bit, WFromNat(size))
         IN IF add.overflow /\ checks THEN Panic
            ELSE IF SpanExceeds(add.sum, total_bits) THEN None
            ELSE IF byte_order = "LittleEndian"
                 THEN LeLoop(data, size,
                             [remaining_bits |-> size, current_byte |-> StartByte(start_bit),
                              bit_offset |-> StartBitInByte(start_bit),
                              result |-> {}, steps |-> 0, read |-> {}])
                 ELSE BeLoop(data, size,
                             [bit_pos |-> start_bit, result |-> {}, steps |-> 0,
                              read |-> {}, broke |-> FALSE])

\* --------------------------------------------------- `as i64`, `as f64`

\* A mathematical integer: sign and magnitude, the magnitude a set of bit positions.
\* `w as i64`: the 64-bit pattern read in two's complement.
I64Value(w) ==
    IF (WordBits - 1) \in w
    THEN [neg |-> TRUE, mag |-> WInc(WNot(w))]
    ELSE [neg |-> FALSE, mag |-> w]

\* `w as u64` read as an integer.
U64Value(w) == [neg |-> FALSE, mag |-> w]

\* Mantissa bits of an f64 (52 stored and the implicit one).
MantissaBits == 53

\* `as f64` of an integer: round the magnitude to 53 significant bits, ties to even.
AsF64(n) ==
    IF n.mag = {} THEN n
    ELSE LET h == CHOOSE j \in n.mag : \A k \in n.mag : k <= j
             d == h - (MantissaBits - 1)
         IN IF d <= 0 THEN n
            ELSE LET low == {i \in n.mag : i < d}
                     keep == {i \in n.mag : i >= d}
                     up == (d - 1) \in low /\ (low # {d - 1} \/ d \in keep)
                     z == CHOOSE j \in d .. (h + 1) :
                              j \notin keep /\ \A k \in d .. (j - 1) : k \in keep
                 IN [neg |-> n.neg,
                     mag |-> IF up THEN {i \in keep : i > z} \cup {z} ELSE keep]

\* ------------------------------------------------ Parser::decode_signal

NoSignal == [kind |-> "None", name |-> "", adjusted |-> U64Value({}),
             value |-> [raw |-> U64Value({}), factor |-> 0, offset |-> 0], unit |-> ""]
SignalPanic == [kind |-> "Panic", name |-> "", adjusted |-> U64Value({}),
                value |-> [raw |-> U64Value({}), factor |-> 0, offset |-> 0], unit |-> ""]

\* `(1u64 << signal_def.size) - 1`: the shift amount wraps modulo 64 when unchecked.
MaxUnsigned(size) == WSubOne(Shl({0}, size))

\* `1u64 << (signal_def.size - 1)`
SignBit(size) == Shl({0}, size - 1)

\* `(raw_value | (!max_unsigned)) as i64` when the sign bit is set, raw_value otherwise:
\* the integer handed to `as f64`.
SignAdjust(raw_value, size) ==
    IF WAnd(raw_value, SignBit(size)) # {}
    THEN I64Value(WOr(raw_value, WNot(MaxUnsigned(size))))
    ELSE U64Value(raw_value)

\* `raw_value * signal_def.factor + signal_def.offset`: the f64 product and sum are
\* kept as the triple that determines them.
Scale(raw_f64, factor, offset) == [raw |-> raw_f64, factor |-> factor, offset |-> offset]

\* decode_signal(signal_def, data) under build `checks`.  `1u64 << 64` panics with
\* overflow checks on.
DecodeSignal(checks, signal_def, data) ==
    LET ext == ExtractSignalValue(checks, data, signal_def.start_bit, signal_def.size,
                                  signal_def.byte_order)
    IN IF ext.kind = "None" THEN NoSignal
       ELSE IF ext.kind = "Panic" THEN SignalPanic
       ELSE IF signal_def.value_type = "Signed" /\ signal_def.size >= WordBits /\ checks
            THEN SignalPanic
       ELSE LET adjusted == IF signal_def.value_type = "Signed"
                            THEN SignAdjust(ext.value, signal_def.size)
                            ELSE U64Value(ext.value)
            IN [kind |-> "Some", name |-> signal_def.name, adjusted |-> adjusted,
                value |-> Scale(AsF64(adjusted), signal_def.factor, signal_def.offset),
                unit |-> signal_def.unit]

\* ------------------------------------------------ inputs of the pure calls

ByteOrders == {"LittleEndian", "BigEndian"}
ValueTypes == {"Unsigned", "Signed"}

\* The start bits drawn: the first offsets in the first byte, its last bit (7), the
\* start of the second byte (8), start 60 (a span that runs off an 8-byte frame), and
\* two values at the top of the usize range (2^64 - 1 and 2^64 - 64), where
\* start_bit + size no longer fits a usize.
StartBits ==
    {WFromNat(n) : n \in 0 .. MaxStartBit}
        \cup {WFromNat(7), WFromNat(8), WFromNat(60), AllOnes, WNot(WFromNat(63))}

\* The buffers are filled with 0xFF, or with the bytes 0x12 0x34 0x56 ... repeated.
Fills == {"ones", "pattern"}
Lens == {0, 1, 2, ByteBits, MaxLen}
PatternBytes == <<18, 52, 86, 120, 154, 188, 222, 240>>
FillByte(fill, k) == IF fill = "ones" THEN 255 ELSE PatternBytes[(k % Len(PatternBytes)) + 1]

\* The values written into a w-bit field: over a buffer of ones, 0 and a pattern that
\* is no palindrome; over the byte pattern, all ones.
Values(fill, w) ==
    IF fill = "ones" THEN {{}, {i \in 0 .. (w - 1) : i % 3 = 0}}
    ELSE {0 .. (w - 1)}

\* The span start .. start + w - 1 lies in a buffer of len bytes (over the integers).
Fits(len, start_bit, w) ==
    /\ len > 0 /\ w >= 1
    /\ WIsSmall(start_bit)
    /\ WToNat(start_bit) + w <= ByteBits * len

\* The inverse of the little-endian packing rule: bit i of v at absolute position
\* p = start + i, in byte p / 8 at bit p mod 8 from the least significant bit.
PackLittleEndian(len, fill, start, w, v) ==
    [k \in 1 .. len |->
        WToNat({j \in 0 .. (ByteBits - 1) :
            LET q == ByteBits * (k - 1) + j
            IN IF q >= start /\ q < start + w
               THEN (q - start) \in v
               ELSE (FillByte(fill, k - 1) \div (2 ^ j)) % 2 = 1})]

\* The MSB-first bitstream: bit w-1-i of v at absolute position p = start + i, in
\* byte p / 8 at bit 7 - (p mod 8) from the least significant bit.
PackBigEndian(len, fill, start, w, v) ==
    [k \in 1 .. len |->
        WToNat({j \in 0 .. (ByteBits - 1) :
            LET q == ByteBits * (k - 1) + ((ByteBits - 1) - j)
            IN IF q >= start /\ q < start + w
               THEN (w - 1 - (q - start)) \in v
               ELSE (FillByte(fill, k - 1) \div (2 ^ j)) % 2 = 1})]

Pack(byte_order, len, fill, start, w, v) ==
    IF byte_order = "LittleEndian"
    THEN PackLittleEndian(len, fill, start, w, v)
    ELSE PackBigEndian(len, fill, start, w, v)

\* The calls drawn: a buffer length, a span and a byte order; when the span fits, a
\* value v is written into the buffer at the span.
Calls ==
    UNION {
        IF Fits(len, start_bit, size)
        THEN UNION {
               {[data |-> Pack(byte_order, len, fill, WToNat(start_bit), size, v),
                 start_bit |-> start_bit, size |-> size, byte_order |-> byte_order,
                 packed |-> TRUE, v |-> v] : v \in Values(fill, size)}
               : fill \in Fills}
        ELSE {[data |-> [k \in 1 .. len |-> FillByte("pattern", k - 1)],
               start_bit |-> start_bit, size |-> size, byte_order |-> byte_order,
               packed |-> FALSE, v |-> {}]}
        : len \in Lens, start_bit \in StartBits, size \in 0 .. WordBits,
          byte_order \in ByteOrders}

\* The signal definition of a drawn call.
SignalOf(c, value_type) ==
    [name |-> "S", start_bit |-> c.start_bit, size |-> c.size,
     byte_order |-> c.byte_order, value_type |-> value_type,
     factor |-> 1, offset |-> 0, unit |-> ""]

\* ------------------------------------------------------- the pure calls

EmptyMap == [k \in {} |-> 0]
NoCallers == EmptyMap
NoDefs == EmptyMap

InitExtract ==
    /\ overflow_checks \in BOOLEAN
    /\ msg_defs = NoDefs
    /\ history = <<>>
    /\ callers = NoCallers
    /\ \E c \in Calls :
         call = [in |-> c, pc |-> "ready", ext |-> None, value_type |-> "Unsigned",
                 dec |-> NoSignal]

\* extract_signal_value is called on the drawn inputs.
CallExtract ==
    /\ call.pc = "ready"
    /\ call' = [call EXCEPT
                  !.pc = "extracted",
                  !.ext = ExtractSignalValue(overflow_checks, call.in.data,
                                              call.in.start_bit, call.in.size,
                                              call.in.byte_order)]
    /\ UNCHANGED <<overflow_checks, msg_defs, history, callers>>

\* decode_signal is called on the same buffer, for a signal of either value type.
CallDecode ==
    /\ call.pc = "extracted"
    /\ \E value_type \in ValueTypes :
         call' = [call EXCEPT
                    !.pc = "decoded",
                    !.value_type = value_type,
                    !.dec = DecodeSignal(overflow_checks, SignalOf(call.in, value_type),
                                         call.in.data)]
    /\ UNCHANGED <<overflow_checks, msg_defs, history, callers>>

NextExtract == CallExtract \/ CallDecode

SpecExtract == InitExtract /\ [][NextExtract]_vars

\* ------------------------------------------- properties of the pure calls

Extracted == call.pc \in {"extracted", "decoded"}

\* C1: extract_signal_value returns None if and only if the buffer is empty, or
\* bit_width is 0, or start_bit + bit_width (over the integers) is greater than 8
\* times the buffer length; in every other case it returns a value.
C1_NoneIffOutOfRange ==
    Extracted =>
        call.ext.kind = (IF Fits(Len(call.in.data), call.in.start_bit, call.in.size)
                         THEN "Some" ELSE "None")

\* x + 1 for a set x of bit positions of any width.
Successor(x) ==
    LET z == CHOOSE j \in 0 .. WordBits : j \notin x /\ \A k \in 0 .. (j - 1) : k \in x
    IN {i \in x : i > z} \cup {z}

\* r read as a w-bit two's-complement integer: r when bit w-1 is clear, r - 2^w
\* (of magnitude 2^w - r, the w-bit complement of r plus one) when it is set.
TwosComplement(r, w) ==
    IF (w - 1) \in r
    THEN [neg |-> TRUE, mag |-> Successor({i \in 0 .. (w - 1) : i \notin r})]
    ELSE [neg |-> FALSE, mag |-> r]

\* C2: for a signed layout of any width w in 1..64 and a buffer on which extraction
\* gives the raw value r, decode_signal reads r as a w-bit two's-complement integer
\* before scaling.
C2_SignedIsTwosComplement ==
    (call.pc = "decoded" /\ call.value_type = "Signed" /\ call.ext.kind = "Some") =>
        /\ call.dec.kind = "Some"
        /\ call.dec.adjusted = TwosComplement(call.ext.value, call.in.size)

\* C3: a value v written by the inverse of the little-endian packing rule is what
\* extract_signal_value with LittleEndian returns, whatever the other bits hold.
C3_LittleEndianRoundTrip ==
    (Extracted /\ call.in.packed /\ call.in.byte_order = "LittleEndian") =>
        call.ext.kind = "Some" /\ call.ext.value = call.in.v

\* A 64-bit field that is not byte aligned came back whole, little-endian.
C3_Witness ==
    /\ Extracted /\ call.in.packed /\ call.in.byte_order = "LittleEndian"
    /\ call.in.size = WordBits /\ call.in.start_bit = WFromNat(3)
    /\ call.in.v = {i \in AllOnes : i % 3 = 0}
    /\ call.ext.value = call.in.v

\* C4: a value v written as an MSB-first bitstream is what extract_signal_value with
\* BigEndian returns, whatever the other bits hold.
C4_BigEndianRoundTrip ==
    (Extracted /\ call.in.packed /\ call.in.byte_order = "BigEndian") =>
        call.ext.kind = "Some" /\ call.ext.value = call.in.v

\* A 12-bit field from start bit 60, its first bit read the result's top bit.
C4_Witness ==
    /\ Extracted /\ call.in.packed /\ call.in.byte_order = "BigEndian"
    /\ call.in.size = 12 /\ call.in.start_bit = WFromNat(60)
    /\ call.in.v = {0, 3, 6, 9}
    /\ call.ext.value = call.in.v
    /\ (call.in.data[8] \div 8) % 2 = 0
    /\ (call.in.data[9] \div 128) % 2 = 0 /\ (call.in.data[9] \div 64) % 2 = 1

\* C8: for a span inside the buffer the value returned lies in [0, 2^w - 1].
C8_ValueWithinWidth ==
    (Extracted /\ Fits(Len(call.in.data), call.in.start_bit, call.in.size)) =>
        /\ call.ext.kind = "Some"
        /\ \A i \in call.ext.value : i < call.in.size

\* The largest 5-bit value came back from bit 3 of a buffer whose other bits are set.
C8_Witness ==
    /\ Extracted /\ call.in.size = 5 /\ call.in.start_bit = WFromNat(3)
    /\ Len(call.in.data) = 2 /\ call.in.data[2] = 52
    /\ call.ext.kind = "Some" /\ call.ext.value = 0 .. 4

\* C10: for a span inside a non-empty buffer neither loop takes its
\* buffer-exhaustion exit: it ends with no bit remaining, having read only bytes of
\* the buffer, after at most w steps (the big-endian loop after exactly w).
C10_NoExhaustion ==
    (Extracted /\ Fits(Len(call.in.data), call.in.start_bit, call.in.size)) =>
        /\ call.ext.kind = "Some"
        /\ ~call.ext.exhausted
        /\ call.ext.remaining = 0
        /\ call.ext.steps <= call.in.size
        /\ call.ext.steps >= 1
        /\ \A i \in call.ext.read : i < Len(call.in.data)
        /\ call.in.byte_order = "BigEndian" => call.ext.steps = call.in.size

\* A little-endian span that ends on the buffer's last bit, read a byte per step.
C10_Witness ==
    /\ Extracted /\ call.in.byte_order = "LittleEndian"
    /\ Len(call.in.data) = MaxLen
    /\ Fits(MaxLen, call.in.start_bit, call.in.size)
    /\ WToNat(call.in.start_bit) + call.in.size = ByteBits * MaxLen
    /\ call.in.size = WordBits
    /\ call.ext.steps = MaxLen - 1 /\ call.ext.read = 1 .. (MaxLen - 1)
    /\ ~call.ext.exhausted

\* ============================================================ the Parser

\* ------------------------------------------------ definition sets (DBC text)

Sig(name, start_bit, size, byte_order, value_type) ==
    [name |-> name, start_bit |-> WFromNat(start_bit), size |-> size,
     byte_order |-> byte_order, value_type |-> value_type,
     factor |-> 1, offset |-> 0, unit |-> ""]

Msg(kind, raw, name, signals) ==
    [id |-> [kind |-> kind, raw |-> raw], name |-> name, signals |-> signals]

\* Frame 0x100 (256): three layouts, the middle one out of range on a frame of 8 bytes or less.
Engine ==
    Msg("Standard", 256, "Engine",
        << Sig("A", 0, 8, "LittleEndian", "Unsigned"),
           Sig("C", 60, 8, "LittleEndian", "Unsigned"),
           Sig("B", 8, 8, "BigEndian", "Signed") >>)

\* Frame id 0x100 defined again, as an extended id, with other layouts.
EngineV2 ==
    Msg("Extended", 256, "EngineV2",
        << Sig("B", 4, 12, "BigEndian", "Unsigned"),
           Sig("Z", 0, 0, "LittleEndian", "Unsigned") >>)

\* Frame 0x200 (512): a signed layout of the full 64 bits, and a plain one after it.
Wide ==
    Msg("Standard", 512, "Wide",
        << Sig("W", 0, 64, "LittleEndian", "Signed"),
           Sig("A", 0, 8, "LittleEndian", "Unsigned") >>)

\* Frame 0x300 (768): a layout whose start bit is 2^64 - 1, and a plain one after it.
Top ==
    Msg("Standard", 768, "Top",
        << [Sig("T", 0, 8, "LittleEndian", "Unsigned") EXCEPT !.start_bit = AllOnes],
           Sig("A", 0, 8, "LittleEndian", "Unsigned") >>)

\* What can_dbc::Dbc::try_from gives for the texts loaded: a parse error, or the
\* messages of the definition set in file order.
ParseError == [ok |-> FALSE, messages |-> <<>>]
Parsed(messages) == [ok |-> TRUE, messages |-> messages]
Texts == {ParseError, Parsed(<<Engine, Wide>>), Parsed(<<Engine, EngineV2, Top>>)}

\* What std::fs::read and String::from_utf8 give for the paths loaded: an error, or
\* a text.
ReadError == [ok |-> FALSE, text |-> ParseError]
Files == {ReadError} \cup {[ok |-> TRUE, text |-> t] : t \in Texts}

\* The frames decoded: ids 0x100, 0x200, 0x300, and 0x400 that no set defines.
FrameIds == {256, 512, 768, 1024}
Buffers == {<<>>, PatternBytes}

\* ------------------------------------------------------------- msg_defs

\* `match msg_def.id { Standard(id) => id as u32, Extended(id) => id }`
MsgId(msg_def) == msg_def.id.raw

\* A slip: an id already present keeps its definition.
InsertIfAbsent(map, key, value) ==
    [k \in DOMAIN map \cup {key} |-> IF k \in DOMAIN map THEN map[k] ELSE value]

\* HashMap::insert
Insert(map, key, value) ==
    [k \in DOMAIN map \cup {key} |-> IF k = key THEN value ELSE map[k]]

\* `for msg_def in dbc.messages { ... self.msg_defs.insert(msg_id, msg_def.clone()); }`
RECURSIVE InsertAll(_, _)
InsertAll(defs, messages) ==
    IF messages = <<>> THEN defs
    ELSE InsertAll(Insert(defs, MsgId(Head(messages)), Head(messages)), Tail(messages))

\* ------------------------------------------------------------ decode_msg

Callers == {"c1", "c2"}

Idle == [pc |-> "idle", msg_id |-> 0, data |-> <<>>, defs0 |-> NoDefs,
         msg_def |-> Msg("Standard", 0, "", <<>>), is_extended |-> FALSE, idx |-> 0,
         decoded_signals |-> EmptyMap,
         result |-> [kind |-> "None", name |-> "", msg_id |-> 0, is_extended |-> FALSE,
                     signals |-> EmptyMap]]

InFlight == {c \in Callers : callers[c].pc = "decoding"}

\* decode_msg up to its loop: `let msg_def = self.msg_defs.get(&msg_id)?;` returns
\* None for an unknown id.  defs0 is a ghost: the catalog as the call found it.
Begin(defs, msg_id, data) ==
    IF msg_id \notin DOMAIN defs
    THEN [Idle EXCEPT !.pc = "done", !.msg_id = msg_id, !.data = data, !.defs0 = defs]
    ELSE [Idle EXCEPT !.pc = "decoding", !.msg_id = msg_id, !.data = data,
                      !.defs0 = defs,
                      !.msg_def = defs[msg_id],
                      !.is_extended = (defs[msg_id].id.kind = "Extended"),
                      !.idx = 1]

DecodeBegin(c) ==
    /\ callers[c].pc = "idle"
    /\ \E msg_id \in FrameIds, data \in Buffers :
         callers' = [callers EXCEPT ![c] = Begin(msg_defs, msg_id, data)]
    /\ UNCHANGED <<overflow_checks, msg_defs, history, call>>

\* A slip: the decoded signals kept in one map shared by the calls in flight.
SignalStepShared(cs, c, checks) ==
    LET me == cs[c]
        decoded == DecodeSignal(checks, me.msg_def.signals[me.idx], me.data)
    IN IF decoded.kind = "Panic"
       THEN [cs EXCEPT ![c] = [me EXCEPT !.pc = "done", !.result.kind = "Panic"]]
       ELSE [k \in DOMAIN cs |->
               IF k = c \/ cs[k].pc = "decoding"
               THEN [cs[k] EXCEPT
                       !.idx = IF k = c THEN @ + 1 ELSE @,
                       !.decoded_signals =
                           IF decoded.kind = "Some"
                           THEN Insert(@, decoded.name, decoded) ELSE @]
               ELSE cs[k]]

\* One pass of `for signal_def in &msg_def.signals` in caller c: the signal is
\* decoded and inserted under its name, or (None) only logged; a panic unwinds the
\* call.
SignalStep(cs, c, checks) ==
    LET me == cs[c]
        decoded == DecodeSignal(checks, me.msg_def.signals[me.idx], me.data)
    IN [cs EXCEPT ![c] =
          IF decoded.kind = "Panic"
          THEN [me EXCEPT !.pc = "done", !.result.kind = "Panic"]
          ELSE [me EXCEPT
                  !.idx = @ + 1,
                  !.decoded_signals =
                      IF decoded.kind = "Some"
                      THEN Insert(@, decoded.name, decoded) ELSE @]]

DecodeOneSignal(c) ==
    /\ callers[c].pc = "decoding"
    /\ callers[c].idx <= Len(callers[c].msg_def.signals)
    /\ callers' = SignalStep(callers, c, overflow_checks)
    /\ UNCHANGED <<overflow_checks, msg_defs, history, call>>

\* `Some(DecodedMessage { name, msg_id, is_extended, signals: decoded_signals })`
DecodedMessage(me) ==
    [kind |-> "Some", name |-> me.msg_def.name, msg_id |-> me.msg_id,
     is_extended |-> me.is_extended, signals |-> me.decoded_signals]

DecodeReturn(c) ==
    /\ callers[c].pc = "decoding"
    /\ callers[c].idx > Len(callers[c].msg_def.signals)
    /\ callers' = [callers EXCEPT ![c] =
                     [callers[c] EXCEPT !.pc = "done", !.result = DecodedMessage(callers[c])]]
    /\ UNCHANGED <<overflow_checks, msg_defs, history, call>>

\* The caller is done with the result and may call again.
TakeResult(c) ==
    /\ callers[c].pc = "done"
    /\ callers' = [callers EXCEPT ![c] = Idle]
    /\ UNCHANGED <<overflow_checks, msg_defs, history, call>>

\* ------------------------------------------------- add_from_str, clear

\* msg_defs after add_from_str on a text: `?` returns the parse error before any
\* insert; otherwise every message is inserted in file order.
AfterLoad(defs, parsed) ==
    IF ~parsed.ok THEN defs ELSE InsertAll(defs, parsed.messages)

\* add_from_str(buffer).  It takes &mut self: no decode_msg call is in flight.
AddFromStr ==
    /\ InFlight = {}
    /\ Len(history) < MaxLoads
    /\ \E parsed \in Texts :
         /\ msg_defs' = AfterLoad(msg_defs, parsed)
         /\ history' = IF parsed.ok THEN Append(history, parsed.messages) ELSE history
    /\ UNCHANGED <<overflow_checks, callers, call>>

\* add_from_dbc_file(path): the file is read and decoded as UTF-8 (`?` on either
\* error), then add_from_str.
AddFromDbcFile ==
    /\ InFlight = {}
    /\ Len(history) < MaxLoads
    /\ \E file \in Files :
         /\ msg_defs' = IF file.ok THEN AfterLoad(msg_defs, file.text) ELSE msg_defs
         /\ history' = IF file.ok /\ file.text.ok
                       THEN Append(history, file.text.messages) ELSE history
    /\ UNCHANGED <<overflow_checks, callers, call>>

\* clear()
Clear ==
    /\ InFlight = {}
    /\ msg_defs' = NoDefs
    /\ history' = <<>>
    /\ UNCHANGED <<overflow_checks, callers, call>>

\* Parser::new(), in a build with overflow checks on or off.
Init ==
    /\ overflow_checks \in BOOLEAN
    /\ msg_defs = NoDefs
    /\ history = <<>>
    /\ callers = [c \in Callers |-> Idle]
    /\ call = [in |-> [data |-> <<>>, start_bit |-> {}, size |-> 0,
                       byte_order |-> "LittleEndian", packed |-> FALSE, v |-> {}],
               pc |-> "unused", ext |-> None, value_type |-> "Unsigned",
               dec |-> NoSignal]

Next ==
    \/ AddFromStr
    \/ AddFromDbcFile
    \/ Clear
    \/ \E c \in Callers : DecodeBegin(c)
    \/ \E c \in Callers : DecodeOneSignal(c)
    \/ \E c \in Callers : DecodeReturn(c)
    \/ \E c \in Callers : TakeResult(c)

Spec == Init /\ [][Next]_vars

\* ------------------------------------------- properties of the Parser

\* decode_msg run to its end by a caller on its own.
RECURSIVE Finish(_, _)
Finish(me, checks) ==
    IF me.pc = "done" THEN me.result
    ELSE IF me.idx > Len(me.msg_def.signals) THEN DecodedMessage(me)
    ELSE Finish(SignalStep([k \in {"alone"} |-> me], "alone", checks)["alone"], checks)

Alone(checks, defs, msg_id, data) == Finish(Begin(defs, msg_id, data), checks)

\* The layouts of a message whose span start_bit .. start_bit + size - 1 lies in
\* the buffer, by name.
Extractable(msg_def, data) ==
    {msg_def.signals[i].name : i \in {j \in 1 .. Len(msg_def.signals) :
        Fits(Len(data), msg_def.signals[j].start_bit, msg_def.signals[j].size)}}

Returned == {c \in Callers : callers[c].pc = "done"}

\* C5 (as the specification states it): for a known frame id, decode_msg returns a
\* DecodedMessage whose signal mapping has exactly the names of the layouts whose
\* span lies in the buffer.  Not so: a layout whose start bit overflows the span
\* sum is decoded (or panics), and a signed 64-bit layout panics where overflow is
\* checked.
C5_PartialDecodeKeys ==
    \A c \in Returned :
        callers[c].msg_id \in DOMAIN callers[c].defs0 =>
            /\ callers[c].result.kind = "Some"
            /\ DOMAIN callers[c].result.signals =
                   Extractable(callers[c].defs0[callers[c].msg_id], callers[c].data)

\* C6 (as the specification states it): decode_msg returns None exactly when the
\* frame id is not in the catalog, and a DecodedMessage for every id that is.  Not
\* so where overflow is checked: the call panics on a signed 64-bit layout or an
\* overflowing span sum.
C6_NoneIffUnknown ==
    \A c \in Returned :
        /\ (callers[c].result.kind = "None") <=> (callers[c].msg_id \notin DOMAIN callers[c].defs0)
        /\ callers[c].msg_id \in DOMAIN callers[c].defs0 => callers[c].result.kind = "Some"

\* The messages of the successful loads since the last clear, in load order.
RECURSIVE Flat(_)
Flat(loads) == IF loads = <<>> THEN <<>> ELSE Head(loads) \o Flat(Tail(loads))

LastDefined(messages, id) ==
    messages[CHOOSE i \in 1 .. Len(messages) :
                /\ MsgId(messages[i]) = id
                /\ \A j \in (i + 1) .. Len(messages) : MsgId(messages[j]) # id]

\* C7: last-loaded wins.  After any loads and clears the catalog has exactly the
\* frame ids defined by a successful load since the last clear, each mapped to the
\* definition of the most recent load (and the last in it) that defined it.
C7_LastLoadedWins ==
    LET loaded == Flat(history)
        ids == {MsgId(loaded[i]) : i \in 1 .. Len(loaded)}
    IN /\ DOMAIN msg_defs = ids
       /\ \A id \in ids : msg_defs[id] = LastDefined(loaded, id)

\* Two loads that both define frame id 0x100: the catalog holds the second one's.
C7_Witness ==
    /\ Len(history) = 2
    /\ history[1] = <<Engine, Wide>>
    /\ history[2] = <<Engine, EngineV2, Top>>
    /\ msg_defs[256] = EngineV2
    /\ msg_defs[512] = Wide

\* C9: decoding is stateless.  While a decode_msg call runs the catalog is the one
\* it found, and under every interleaving with other callers the call returns what
\* it returns running on its own on the same catalog, frame id and buffer.
C9_DecodeIsStateless ==
    \A c \in Callers :
        /\ callers[c].pc = "decoding" => msg_defs = callers[c].defs0
        /\ callers[c].pc = "done" =>
              callers[c].result = Alone(overflow_checks, callers[c].defs0,
                                        callers[c].msg_id, callers[c].data)

\* Two calls in flight at once on different frames, each with all its signals
\* decoded and about to return.
C9_Witness ==
    /\ callers["c1"].pc = "decoding" /\ callers["c2"].pc = "decoding"
    /\ callers["c1"].msg_id = 256 /\ callers["c2"].msg_id = 512
    /\ callers["c1"].idx = 4 /\ callers["c2"].idx = 3
    /\ DOMAIN callers["c1"].decoded_signals = {"A", "B"}
    /\ DOMAIN callers["c2"].decoded_signals = {"W", "A"}

====
